---- MODULE Spec2Model ----
(***************************************************************************)
(* Model of the task-stream connection manager (StreamManager), the event  *)
(* envelope builder (StreamManager.emit), the result dispatcher            *)
(* (sendMessageToServer) and the task dispatch adapter (initChatbot's      *)
(* onTask) of nestbox-ai-functions.                                        *)
(*                                                                         *)
(* All code runs on one event loop, so every callback (probe callback,     *)
(* stream event listener, timer callback, SendResult callback) is one      *)
(* atomic action.  The gRPC server, the streams, the timers and the user   *)
(* handler are the environment: their events are nondeterministic.         *)
(***************************************************************************)
EXTENDS Integers, Sequences, FiniteSets, TLC

(***************************************************************************)
(* Bounds of the model (not program constants).                            *)
(***************************************************************************)
MaxStarts == 2
MaxProbeFails == 6
MaxDisconnects == 2
RandomSteps == 2
MaxTasks == 2
MaxSends == 2
MaxCleanups == 2
MaxSideFailures == 1
MaxArrivals == 3

(***************************************************************************)
(* Program constants.                                                      *)
(***************************************************************************)
INITIAL_BACKOFF == 1000
MAX_BACKOFF == 10000
JITTER_RANGE == 300

NoCall == 0

NoClient == 0

VARIABLES
  startCalls,   \* number of start() calls made so far
  rapid,        \* TRUE when the 2nd start() came before any probe completed
  activeCall,   \* StreamManager.activeCall: NoCall or the id of a stream
  backoffMs,    \* StreamManager.backoffMs
  probes,       \* number of waitForServerReady promises still pending
  timers,       \* number of reconnect timers (setTimeout) still pending
  lastWait,     \* the wait computed by the latest scheduleReconnect()
  probeFails,   \* number of readiness probes that failed so far
  disconnects,  \* number of error/end/close events emitted so far
  streams,      \* streams[i]: the i-th stream returned by TaskStream
  tasks,        \* tasks[i]: the i-th onTask call and its handler invocation
  sends,        \* sends[i]: the i-th SendResult call and its emit promise
  emitCalls,    \* number of calls of StreamManager.emit so far
  emitIn,       \* EnvelopeSpec: the arguments of one emit call
  emitOut,      \* EnvelopeSpec: the envelope emit built for them
  client,       \* grpc-client's module variable: NoClient or a handle's id
  clients,      \* clients[c]: the c-th handle getClient() constructed
  cleanups,     \* number of cleanup() calls made so far
  exited,       \* TRUE once process.exit() has run
  arrivals,     \* arrivals[n]: the n-th data event, its stream and payload
  microtasks,   \* the handler invocations queued by Promise.resolve().then
  uncaught,     \* the errors that reached the uncaughtException listener
  given,        \* UseSpec: the handler the user wrote
  used          \* UseSpec: what useAgent or useChatbot returned for it

connVars == <<startCalls, rapid, activeCall, backoffMs, probes, timers,
              lastWait, probeFails, disconnects, streams>>

envVars == <<emitIn, emitOut>>

dispVars == <<tasks, sends, emitCalls>>

clientVars == <<client, clients>>

loopVars == <<arrivals, microtasks, uncaught>>

useVars == <<given, used>>

procVars == <<cleanups, exited, arrivals, microtasks, uncaught, given, used>>

vars == <<startCalls, rapid, activeCall, backoffMs, probes, timers, lastWait,
          probeFails, disconnects, streams, tasks, sends, emitCalls, emitIn,
          emitOut, client, clients, cleanups, exited, arrivals, microtasks,
          uncaught, given, used>>

Min(a, b) == IF a < b THEN a ELSE b

DisconnectEvents == {"error", "end", "close"}

(***************************************************************************)
(* Math.floor(Math.random() * 300): Math.random() is k / RandomSteps for   *)
(* some k in 0 .. RandomSteps - 1.                                         *)
(***************************************************************************)
Jitter(k) == (k * JITTER_RANGE) \div RandomSteps

\* a wait that ignores the backoff
ReconnectWaitNoBackoff(b, k) == [base |-> INITIAL_BACKOFF, jitter |-> Jitter(k)]

(***************************************************************************)
(* scheduleReconnect(): the wait is min(MAX_BACKOFF, backoffMs) + jitter.  *)
(***************************************************************************)
ReconnectWait(b, k) == [base |-> Min(MAX_BACKOFF, b), jitter |-> Jitter(k)]

\* a scheduleReconnect that computes the wait but sets no timer
scheduleReconnectNoTimer(t) == t

(***************************************************************************)
(* scheduleReconnect(): one more timer is pending.  t is the number of     *)
(* pending timers.                                                         *)
(***************************************************************************)
scheduleReconnect(t) == t + 1

\* a backoff that doubles without a ceiling
NextBackoffUncapped(b) == b * 2

\* a backoff that grows by the floor instead of doubling
NextBackoffLinear(b) == Min(MAX_BACKOFF, b + INITIAL_BACKOFF)

(***************************************************************************)
(* The timer callback's first statement: backoffMs = min(MAX, 2*backoffMs) *)
(***************************************************************************)
NextBackoff(b) == Min(MAX_BACKOFF, b * 2)

\* a startTaskStream without its first line
startTaskStreamUnguarded(ac, p) == p + 1

(***************************************************************************)
(* startTaskStream(): returns at once when activeCall is set; otherwise    *)
(* the async body runs up to `await waitForServerReady(2000)', which       *)
(* leaves one more probe pending.  p is the number of pending probes.      *)
(***************************************************************************)
startTaskStream(ac, p) == IF ac # NoCall THEN p ELSE p + 1

(***************************************************************************)
(* A stream returned by TaskStream: the events it has emitted and the      *)
(* number of cancel() calls made on it.                                    *)
(***************************************************************************)
NewStream == [emitted |-> {}, cancels |-> 0]

IsOpen(s) == streams[s].emitted = {} /\ streams[s].cancels = 0

(***************************************************************************)
(* grpc-client: getClient() constructs the handle when there is none and   *)
(* returns it; closeClient() closes the handle when there is one and       *)
(* forgets it.  c is the module variable, cs the handles constructed so    *)
(* far, each with the number of close() calls made on it.                  *)
(***************************************************************************)
NewClient == [closes |-> 0]

\* a getClient that constructs a handle on every call
getClientAlwaysNew(c, cs) ==
  [client |-> Len(cs) + 1, clients |-> Append(cs, NewClient)]

getClient(c, cs) ==
  IF c = NoClient
  THEN [client |-> Len(cs) + 1, clients |-> Append(cs, NewClient)]
  ELSE [client |-> c, clients |-> cs]

closeClient(c, cs) ==
  IF c # NoClient
  THEN [client |-> NoClient, clients |-> [cs EXCEPT ![c].closes = @ + 1]]
  ELSE [client |-> c, clients |-> cs]

(***************************************************************************)
(* startTaskStream() for the client handle: past the activeCall guard,     *)
(* waitForServerReady calls getClient() before it probes.                  *)
(***************************************************************************)
waitForServerReady(ac, c, cs) ==
  IF ac # NoCall THEN [client |-> c, clients |-> cs] ELSE getClient(c, cs)

OpenStreams == {s \in 1..Len(streams) : IsOpen(s)}

(***************************************************************************)
(* JavaScript values.  Every value is a record [t, v]: a string, an Error  *)
(* object with message v, undefined, or an opaque object named v (params,  *)
(* messages, the {} that JSON makes of an Error).  An object with named    *)
(* properties (context, payload, envelope) is a function from its keys.    *)
(***************************************************************************)
Str(s) == [t |-> "string", v |-> s]
Error(m) == [t |-> "Error", v |-> m]
Obj(n) == [t |-> "object", v |-> n]
Undefined == [t |-> "undefined", v |-> ""]

Truthy(x) == x.t # "undefined" /\ ~(x.t = "string" /\ x.v = "")

\* e?.message
MessageOf(e) == IF e.t = "Error" THEN Str(e.v) ELSE Undefined

\* obj.k
Get(obj, k) == IF k \in DOMAIN obj THEN obj[k] ELSE Undefined

\* { ...a, ...b }
Spread(a, b) == b @@ a

EmptyObject == [k \in {} |-> Undefined]

(***************************************************************************)
(* JSON.stringify of an object followed by Buffer.from(.., "utf8"), and    *)
(* JSON.parse(buffer.toString("utf8")).  Properties whose value is         *)
(* undefined are left out of the text, and an Error object has no          *)
(* enumerable property, so it becomes {}.  A text is JSON or not; of a     *)
(* text that is not JSON, JSON.parse throws a SyntaxError instead of       *)
(* returning a value.                                                      *)
(***************************************************************************)
JsonValue(x) == IF x.t = "Error" THEN Obj("{}") ELSE x

JsonStringify(obj) ==
  [utf8 |-> [json |-> TRUE,
             value |-> [k \in {j \in DOMAIN obj : obj[j].t # "undefined"} |->
                          JsonValue(obj[k])]]]

JsonParseThrows(buf) == ~buf.utf8.json

\* a decoding that leaves out the properties holding an empty string
JsonParseDropsEmpty(buf) ==
  [k \in {j \in DOMAIN buf.utf8.value : Truthy(buf.utf8.value[j])} |->
     buf.utf8.value[k]]

JsonParse(buf) == buf.utf8.value

SyntaxError == Error("Unexpected token")

EventKeys == {"queryCreated", "queryCompleted", "queryFailed", "eventCreated"}

\* a table in which eventCreated carries the listener of queryCreated
EVENT_CONFIGS_Duplicate ==
  [key \in EventKeys |->
     CASE key = "queryCreated" ->
            [eventType |-> "QUERY_CREATED", webhookListener |-> "emitQueryCreated"]
       [] key = "queryCompleted" ->
            [eventType |-> "QUERY_COMPLETED", webhookListener |-> "emitQueryCompleted"]
       [] key = "queryFailed" ->
            [eventType |-> "QUERY_FAILED", webhookListener |-> "emitQueryFailed"]
       [] key = "eventCreated" ->
            [eventType |-> "EVENT_CREATED", webhookListener |-> "emitQueryCreated"]]

(***************************************************************************)
(* EVENT_CONFIGS                                                           *)
(***************************************************************************)
EVENT_CONFIGS ==
  [key \in EventKeys |->
     CASE key = "queryCreated" ->
            [eventType |-> "QUERY_CREATED", webhookListener |-> "emitQueryCreated"]
       [] key = "queryCompleted" ->
            [eventType |-> "QUERY_COMPLETED", webhookListener |-> "emitQueryCompleted"]
       [] key = "queryFailed" ->
            [eventType |-> "QUERY_FAILED", webhookListener |-> "emitQueryFailed"]
       [] key = "eventCreated" ->
            [eventType |-> "EVENT_CREATED", webhookListener |-> "emitEventCreated"]]

(***************************************************************************)
(* StreamManager.emit, the synchronous part: completePayload.              *)
(* `...(context.k && { k: context.k })' adds k only when it is truthy.     *)
(***************************************************************************)
IfTruthy(context, k) ==
  IF Truthy(Get(context, k)) THEN (k :> context[k]) ELSE EmptyObject

\* an envelope that spreads the payload last, over the fixed fields
completePayloadPayloadLast(context, eventKey, payload) ==
  LET config == EVENT_CONFIGS[eventKey]
      fixed  == ("eventType" :> Str(config.eventType)) @@
                ("webhookListener" :> Str(config.webhookListener)) @@
                ("queryId" :> Get(context, "queryId")) @@
                ("params" :> Get(context, "params"))
  IN Spread(Spread(Spread(Spread(fixed, IfTruthy(context, "agentId")),
                          IfTruthy(context, "chatbotId")),
                   IfTruthy(context, "messages")),
            payload)

completePayload(context, eventKey, payload) ==
  LET config == EVENT_CONFIGS[eventKey]
      fixed  == ("eventType" :> Str(config.eventType)) @@
                ("webhookListener" :> Str(config.webhookListener)) @@
                ("queryId" :> Get(context, "queryId")) @@
                ("params" :> Get(context, "params"))
  IN Spread(Spread(Spread(Spread(payload, fixed),
                          IfTruthy(context, "agentId")),
                   IfTruthy(context, "chatbotId")),
            IfTruthy(context, "messages"))

(***************************************************************************)
(* sendMessageToServer: the message handed to SendResult (its timestamp,   *)
(* Date.now(), is left out) and the callback `if (err) reject(err) else    *)
(* resolve()'.                                                             *)
(***************************************************************************)
ResultMessage(payload) == [data |-> JsonStringify(payload)]

\* a callback that resolves whatever the error argument is
SendSettleIgnoreError(err) == [status |-> "resolved", value |-> Undefined]

SendSettle(err) ==
  IF Truthy(err) THEN [status |-> "rejected", value |-> err]
                 ELSE [status |-> "resolved", value |-> Undefined]

(***************************************************************************)
(* emit after `await this.sendMessageToServer(completePayload)': the       *)
(* promise of emit rejects with the send's error or resolves with the      *)
(* envelope.                                                               *)
(***************************************************************************)
EmitSettle(sent, envelope) ==
  IF sent.status = "rejected" THEN sent
                              ELSE [status |-> "resolved", value |-> envelope]

Pending == [status |-> "pending", value |-> Undefined]

(***************************************************************************)
(* The catch callback of onTask: { data: e?.message || e }.                *)
(***************************************************************************)
FailurePayload(e) ==
  "data" :> (IF Truthy(MessageOf(e)) THEN MessageOf(e) ELSE e)

(***************************************************************************)
(* Inputs: the contexts the server sends, the payloads and failures of the *)
(* user handler, the errors of SendResult.                                 *)
(***************************************************************************)
AgentContext ==
  [k \in {"queryId", "params", "agentId", "agentName", "webhookGroups"} |->
     CASE k = "queryId" -> Str("q1")
       [] k = "params" -> Obj("params1")
       [] k = "agentId" -> Str("a1")
       [] k = "agentName" -> Str("agent")
       [] k = "webhookGroups" -> Obj("groups1")]

ChatbotContext ==
  [k \in {"queryId", "params", "chatbotId", "chatbotName", "messages",
          "webhookGroups"} |->
     CASE k = "queryId" -> Str("q2")
       [] k = "params" -> Obj("params2")
       [] k = "chatbotId" -> Str("c1")
       [] k = "chatbotName" -> Str("chatbot")
       [] k = "messages" -> Obj("messages2")
       [] k = "webhookGroups" -> Obj("groups2")]

\* a context without identity fields and one whose agentId is the empty string
BareContext ==
  [k \in {"queryId", "params"} |->
     IF k = "queryId" THEN Str("q3") ELSE Obj("params3")]

EmptyIdContext == ("agentId" :> Str("")) @@ BareContext

Contexts == {AgentContext, ChatbotContext}

AllContexts == {AgentContext, ChatbotContext, BareContext, EmptyIdContext}

PayloadKeys == {"data", "eventType", "webhookListener", "queryId", "params",
                "agentId", "chatbotId", "messages", "extra"}

\* every payload object over PayloadKeys; each property holds a caller value
AllPayloads ==
  UNION {[K -> {Str("caller")}] : K \in SUBSET PayloadKeys}

\* the emitters and payloads the handlers of DispatchSpec use
HandlerEmitters == {"emitQueryCompleted", "emitQueryFailed"}

HandlerPayloads == {"data" :> Str("result")}

\* what a handler throws or rejects with: new Error("boom"), new Error(),
\* the string "oops"
Failures == {Error("boom"), Error(""), Str("oops")}

SendError == Error("Send failed")

\* the first argument of the SendResult callback: null or an error
CallbackErrors == {Undefined, SendError}

NoEmit == [context |-> EmptyObject, emitter |-> "", payload |-> EmptyObject]

NotBuilt == [envelope |-> EmptyObject, message |-> ResultMessage(EmptyObject)]

(***************************************************************************)
(* A user handler: a function object, with its identity and what a call    *)
(* of it does for each context.  useAgent and useChatbot return their      *)
(* argument.                                                               *)
(***************************************************************************)
NoHandler == [id |-> "", behaviour |-> EmptyObject]

NotUsed == [by |-> "", handler |-> NoHandler]

\* a useAgent that returns a new function calling the agent
useAgentWrapped(agent) == [id |-> "wrapper", behaviour |-> agent.behaviour]

useAgent(agent) == agent

useChatbot(chatbot) == chatbot

\* handler(context, events)
Call(handler, context) == handler.behaviour[context]

UseInit ==
  /\ given = NoHandler
  /\ used = NotUsed

\* the event loop at the start: no data event yet, nothing queued or thrown
LoopInit ==
  /\ arrivals = <<>>
  /\ microtasks = <<>>
  /\ uncaught = <<>>

ConnInit ==
  /\ startCalls = 0
  /\ rapid = FALSE
  /\ activeCall = NoCall
  /\ backoffMs = INITIAL_BACKOFF
  /\ probes = 0
  /\ timers = 0
  /\ lastWait = [base |-> 0, jitter |-> 0]
  /\ probeFails = 0
  /\ disconnects = 0
  /\ streams = <<>>

Init ==
  /\ ConnInit
  /\ tasks = <<>>
  /\ sends = <<>>
  /\ emitCalls = 0
  /\ emitIn = NoEmit
  /\ emitOut = NotBuilt
  /\ client = NoClient
  /\ clients = <<>>
  /\ cleanups = 0
  /\ exited = FALSE
  /\ LoopInit
  /\ UseInit

(***************************************************************************)
(* start(): startTaskStream() (setupProcessHandlers only registers process *)
(* listeners).                                                             *)
(***************************************************************************)
Start ==
  /\ startCalls < MaxStarts
  /\ startCalls' = startCalls + 1
  /\ rapid' = (rapid \/ (startCalls = 1 /\ probeFails = 0 /\ Len(streams) = 0))
  /\ probes' = startTaskStream(activeCall, probes)
  /\ LET ready == waitForServerReady(activeCall, client, clients)
     IN /\ client' = ready.client
        /\ clients' = ready.clients
  /\ UNCHANGED <<activeCall, backoffMs, timers, lastWait, probeFails,
                 disconnects, streams, dispVars, envVars, procVars>>

(***************************************************************************)
(* waitForReady's callback reports an error: the await throws, the catch   *)
(* block calls scheduleReconnect() and the async body returns.             *)
(***************************************************************************)
\* a catch block without its return: the body goes on to call TaskStream
probeFailedFallsThrough(ss, ac, t) ==
  [streams |-> Append(ss, NewStream), activeCall |-> Len(ss) + 1,
   timers |-> scheduleReconnect(t)]

probeFailed(ss, ac, t) ==
  [streams |-> ss, activeCall |-> ac, timers |-> scheduleReconnect(t)]

ProbeFail ==
  /\ probes > 0
  /\ probeFails < MaxProbeFails
  /\ \E k \in 0..(RandomSteps - 1) :
       lastWait' = ReconnectWait(backoffMs, k)
  /\ probes' = probes - 1
  /\ LET after == probeFailed(streams, activeCall, timers)
     IN /\ streams' = after.streams
        /\ activeCall' = after.activeCall
        /\ timers' = after.timers
  /\ probeFails' = probeFails + 1
  /\ UNCHANGED <<startCalls, rapid, backoffMs, disconnects, dispVars,
                 envVars, clientVars, procVars>>

(***************************************************************************)
(* waitForReady's callback reports success: TaskStream is called, the new  *)
(* call becomes activeCall, the backoff is reset and the listeners are     *)
(* registered.                                                             *)
(***************************************************************************)
ProbeSuccess ==
  /\ probes > 0
  /\ probes' = probes - 1
  /\ streams' = Append(streams, NewStream)
  /\ activeCall' = Len(streams) + 1
  /\ backoffMs' = INITIAL_BACKOFF
  /\ LET got == getClient(client, clients)
     IN /\ client' = got.client
        /\ clients' = got.clients
  /\ UNCHANGED <<startCalls, rapid, timers, lastWait, probeFails, disconnects,
                 dispVars, envVars, procVars>>

\* an onDisconnected that schedules the reconnect but keeps the reference
onDisconnectedKeepsReference(call, ac, t) ==
  [activeCall |-> ac, timers |-> scheduleReconnect(t)]

\* an onDisconnected that clears the reference without comparing it
onDisconnectedUnguarded(call, ac, t) ==
  [activeCall |-> NoCall, timers |-> scheduleReconnect(t)]

\* an onDisconnected that clears the reference but schedules no reconnect
onDisconnectedNoReconnect(call, ac, t) ==
  [activeCall |-> IF ac = call THEN NoCall ELSE ac, timers |-> t]

(***************************************************************************)
(* onDisconnected of stream `call': activeCall is cleared when it still    *)
(* refers to this stream, and scheduleReconnect() is called.               *)
(***************************************************************************)
onDisconnected(call, ac, t) ==
  [activeCall |-> IF ac = call THEN NoCall ELSE ac,
   timers |-> scheduleReconnect(t)]

\* an onDisconnected that fails the running invocations of the stream's tasks
tasksAfterDisconnectFailing(ts, call) ==
  [t \in 1..Len(ts) |->
     IF ts[t].stream = call /\ ts[t].state = "running"
     THEN [ts[t] EXCEPT !.state = "failed", !.failure = Error("stream closed")]
     ELSE ts[t]]

(***************************************************************************)
(* onDisconnected of stream `call' for the handler invocations ts: it logs *)
(* the event and touches none of them.                                     *)
(***************************************************************************)
tasksAfterDisconnect(ts, call) == ts

(***************************************************************************)
(* Stream s emits error, end or close; onDisconnected listens to all       *)
(* three.  A stream emits each of them at most once and nothing after      *)
(* close.                                                                  *)
(***************************************************************************)
StreamEvent(s, e) ==
  /\ disconnects < MaxDisconnects
  /\ e \notin streams[s].emitted
  /\ "close" \notin streams[s].emitted
  /\ streams' = [streams EXCEPT ![s].emitted = @ \cup {e}]
  /\ LET after == onDisconnected(s, activeCall, timers)
     IN /\ activeCall' = after.activeCall
        /\ timers' = after.timers
  /\ \E k \in 0..(RandomSteps - 1) :
       lastWait' = ReconnectWait(backoffMs, k)
  /\ disconnects' = disconnects + 1
  /\ tasks' = tasksAfterDisconnect(tasks, s)
  /\ UNCHANGED <<startCalls, rapid, backoffMs, probes, probeFails, sends,
                 emitCalls, envVars, clientVars, procVars>>

(***************************************************************************)
(* The setTimeout callback of scheduleReconnect().                         *)
(***************************************************************************)
TimerFire ==
  /\ timers > 0
  /\ timers' = timers - 1
  /\ backoffMs' = NextBackoff(backoffMs)
  /\ probes' = startTaskStream(activeCall, probes)
  /\ LET ready == waitForServerReady(activeCall, client, clients)
     IN /\ client' = ready.client
        /\ clients' = ready.clients
  /\ UNCHANGED <<startCalls, rapid, activeCall, lastWait, probeFails,
                 disconnects, streams, dispVars, envVars, procVars>>

(***************************************************************************)
(* cleanup(): the active stream, if there is one, is cancelled and the     *)
(* reference cleared; closeClient() closes the client handle, if there is  *)
(* one.  st is the state cleanup() reads and writes.                       *)
(***************************************************************************)
ManagerState ==
  [activeCall |-> activeCall, streams |-> streams,
   client |-> client, clients |-> clients]

\* a cleanup that cancels the stream but keeps the reference to it
cleanupKeepsReference(st) ==
  LET closed == closeClient(st.client, st.clients)
  IN [activeCall |-> st.activeCall,
      streams |-> IF st.activeCall # NoCall
                  THEN [st.streams EXCEPT ![st.activeCall].cancels = @ + 1]
                  ELSE st.streams,
      client |-> closed.client, clients |-> closed.clients]

cleanup(st) ==
  LET closed == closeClient(st.client, st.clients)
  IN [activeCall |-> NoCall,
      streams |-> IF st.activeCall # NoCall
                  THEN [st.streams EXCEPT ![st.activeCall].cancels = @ + 1]
                  ELSE st.streams,
      client |-> closed.client, clients |-> closed.clients]

RECURSIVE cleanupTimes(_, _)
cleanupTimes(n, st) == IF n = 0 THEN st ELSE cleanupTimes(n - 1, cleanup(st))

(***************************************************************************)
(* The owner of the manager calls cleanup().                               *)
(***************************************************************************)
Cleanup ==
  /\ ~exited
  /\ cleanups < MaxCleanups
  /\ LET after == cleanup(ManagerState)
     IN /\ activeCall' = after.activeCall
        /\ streams' = after.streams
        /\ client' = after.client
        /\ clients' = after.clients
  /\ cleanups' = cleanups + 1
  /\ UNCHANGED <<startCalls, rapid, backoffMs, probes, timers, lastWait,
                 probeFails, disconnects, dispVars, envVars, exited,
                 loopVars, useVars>>

(***************************************************************************)
(* SIGINT or SIGTERM arrives.  Every start() registered one listener for   *)
(* each signal and one for "exit".  The first signal listener calls        *)
(* cleanup() and process.exit(0); process.exit runs the "exit" listeners,  *)
(* each of which calls cleanup() again, and the process ends.              *)
(***************************************************************************)
Signal ==
  /\ ~exited
  /\ startCalls >= 1
  /\ LET after == cleanupTimes(1 + startCalls, ManagerState)
     IN /\ activeCall' = after.activeCall
        /\ streams' = after.streams
        /\ client' = after.client
        /\ clients' = after.clients
  /\ cleanups' = cleanups + 1 + startCalls
  /\ exited' = TRUE
  /\ UNCHANGED <<startCalls, rapid, backoffMs, probes, timers, lastWait,
                 probeFails, disconnects, dispVars, envVars, loopVars,
                 useVars>>

(***************************************************************************)
(* The "data" listener of stream s: the payload bytes are decoded and      *)
(* onTask(context) builds the emitters and invokes the user handler.  The  *)
(* server encoded the context ctx into the payload.  A stream delivers no  *)
(* data after its end or close event.                                      *)
(***************************************************************************)
onTask(context, s) ==
  [context |-> context, stream |-> s,
   afterError |-> ("error" \in streams[s].emitted),
   state |-> "running", failure |-> Undefined, awaiting |-> 0, calls |-> 0]

StreamData(s, ctx) ==
  /\ Len(tasks) < MaxTasks
  /\ "end" \notin streams[s].emitted
  /\ "close" \notin streams[s].emitted
  /\ LET task == [payload |-> JsonStringify(ctx)]
         context == JsonParse(task.payload)
     IN tasks' = Append(tasks, onTask(context, s))
  /\ UNCHANGED <<connVars, sends, emitCalls, envVars, clientVars, procVars>>

(***************************************************************************)
(* The same listener with the event loop's queue.  The server sends an     *)
(* encoded context or bytes that are not JSON.  JSON.parse throws of the   *)
(* latter: the error leaves the listener before onTask is called and       *)
(* reaches the uncaughtException listener, which logs it.  Otherwise       *)
(* onTask(context) builds the emitters and `Promise.resolve().then(..)'    *)
(* queues the handler invocation as a microtask.  Several data events can  *)
(* be emitted before the queue is run.                                     *)
(***************************************************************************)
MalformedPayload == [utf8 |-> [json |-> FALSE, value |-> EmptyObject]]

TaskPayloads == {JsonStringify(ctx) : ctx \in Contexts} \cup {MalformedPayload}

\* a queue that runs the callback queued last first
QueueMicrotaskLifo(q, m) == <<m>> \o q

QueueMicrotask(q, m) == Append(q, m)

\* a listener that treats a payload it cannot decode as the loss of the
\* stream: it calls onDisconnected
DataEventDisconnects(s, payload) ==
  /\ Len(arrivals) < MaxArrivals
  /\ "end" \notin streams[s].emitted
  /\ "close" \notin streams[s].emitted
  /\ arrivals' = Append(arrivals, [stream |-> s, payload |-> payload])
  /\ IF JsonParseThrows(payload)
     THEN /\ activeCall' = onDisconnected(s, activeCall, timers).activeCall
          /\ timers' = onDisconnected(s, activeCall, timers).timers
          /\ UNCHANGED <<microtasks, uncaught>>
     ELSE /\ microtasks' =
               QueueMicrotask(microtasks,
                              onTask(JsonParse(payload), s) @@
                                [arrival |-> Len(arrivals) + 1])
          /\ UNCHANGED <<uncaught, activeCall, timers>>
  /\ UNCHANGED <<startCalls, rapid, backoffMs, probes, lastWait, probeFails,
                 disconnects, streams, dispVars, envVars, clientVars,
                 cleanups, exited, useVars>>

DataEvent(s, payload) ==
  /\ Len(arrivals) < MaxArrivals
  /\ "end" \notin streams[s].emitted
  /\ "close" \notin streams[s].emitted
  /\ arrivals' = Append(arrivals, [stream |-> s, payload |-> payload])
  /\ IF JsonParseThrows(payload)
     THEN /\ uncaught' = Append(uncaught, [arrival |-> Len(arrivals) + 1,
                                           error |-> SyntaxError])
          /\ UNCHANGED microtasks
     ELSE /\ microtasks' =
               QueueMicrotask(microtasks,
                              onTask(JsonParse(payload), s) @@
                                [arrival |-> Len(arrivals) + 1])
          /\ UNCHANGED uncaught
  /\ UNCHANGED <<connVars, dispVars, envVars, clientVars, cleanups, exited,
                 useVars>>

\* a queue that holds an invocation back while an earlier one is running
RunMicrotaskSerialized ==
  /\ microtasks # <<>>
  /\ \A t \in 1..Len(tasks) : tasks[t].state # "running"
  /\ tasks' = Append(tasks, Head(microtasks))
  /\ microtasks' = Tail(microtasks)
  /\ UNCHANGED <<connVars, sends, emitCalls, envVars, clientVars, cleanups,
                 exited, arrivals, uncaught, useVars>>

(***************************************************************************)
(* The event loop runs the first queued microtask: the user handler is     *)
(* invoked, whatever the earlier invocations are doing.                    *)
(***************************************************************************)
RunMicrotask ==
  /\ microtasks # <<>>
  /\ tasks' = Append(tasks, Head(microtasks))
  /\ microtasks' = Tail(microtasks)
  /\ UNCHANGED <<connVars, sends, emitCalls, envVars, clientVars, cleanups,
                 exited, arrivals, uncaught, useVars>>

(***************************************************************************)
(* The four emitters onTask builds, each bound to its event key.           *)
(***************************************************************************)
Emitters == {"emitQueryCreated", "emitQueryCompleted", "emitQueryFailed",
             "emitEventCreated"}

EmitterKey(emitter) ==
  CASE emitter = "emitQueryCreated" -> "queryCreated"
    [] emitter = "emitQueryCompleted" -> "queryCompleted"
    [] emitter = "emitQueryFailed" -> "queryFailed"
    [] emitter = "emitEventCreated" -> "eventCreated"

\* an emit that makes no SendResult call and rejects at once when the manager
\* holds no active stream
EmitCallRequiresStream(t, origin, emitter, payload) ==
  LET envelope == completePayload(tasks[t].context, EmitterKey(emitter), payload)
  IN [task |-> t, origin |-> origin, emitter |-> emitter,
      envelope |-> envelope, message |-> ResultMessage(envelope),
      streamAtCall |-> activeCall,
      client |-> getClient(client, clients).client,
      callback |-> [called |-> FALSE, err |-> Undefined],
      promise |-> IF activeCall = NoCall
                  THEN [status |-> "rejected", value |-> Error("No active stream")]
                  ELSE Pending]

\* emitters that read the context of the task dispatched last
EmitCallLatestContext(t, origin, emitter, payload) ==
  LET envelope == completePayload(tasks[Len(tasks)].context,
                                  EmitterKey(emitter), payload)
  IN [task |-> t, origin |-> origin, emitter |-> emitter,
      envelope |-> envelope, message |-> ResultMessage(envelope),
      streamAtCall |-> activeCall,
      client |-> getClient(client, clients).client,
      callback |-> [called |-> FALSE, err |-> Undefined],
      promise |-> Pending]

\* an emit that calls SendResult but does not await it: its promise is
\* resolved with the envelope at once
EmitCallNotAwaited(t, origin, emitter, payload) ==
  LET envelope == completePayload(tasks[t].context, EmitterKey(emitter), payload)
  IN [task |-> t, origin |-> origin, emitter |-> emitter,
      envelope |-> envelope, message |-> ResultMessage(envelope),
      streamAtCall |-> activeCall,
      client |-> getClient(client, clients).client,
      callback |-> [called |-> FALSE, err |-> Undefined],
      promise |-> [status |-> "resolved", value |-> envelope]]

(***************************************************************************)
(* One emit call: the envelope is built and SendResult is called with the  *)
(* message, both synchronously and whatever activeCall is; the promise of  *)
(* emit stays pending until the callback runs.  The record is the          *)
(* SendResult call; streamAtCall is the manager's activeCall at the call   *)
(* and client the handle getClient() returned for it.                      *)
(***************************************************************************)
EmitCall(t, origin, emitter, payload) ==
  LET envelope == completePayload(tasks[t].context, EmitterKey(emitter), payload)
  IN [task |-> t, origin |-> origin, emitter |-> emitter,
      envelope |-> envelope, message |-> ResultMessage(envelope),
      streamAtCall |-> activeCall,
      client |-> getClient(client, clients).client,
      callback |-> [called |-> FALSE, err |-> Undefined],
      promise |-> Pending]

(***************************************************************************)
(* The user handler of task t calls one of its emitters, and awaits the    *)
(* returned promise or not.  The emitters are closures the handler may     *)
(* keep, so they can be called after the handler has returned or failed.   *)
(***************************************************************************)
HandlerEmit(t, emitter, payload, await) ==
  /\ Len(sends) < MaxSends
  /\ tasks[t].awaiting = 0
  /\ await => tasks[t].state = "running"
  /\ emitCalls' = emitCalls + 1
  /\ sends' = Append(sends, EmitCall(t, "handler", emitter, payload))
  /\ LET call == EmitCall(t, "handler", emitter, payload)
     IN tasks' = [tasks EXCEPT
                    ![t].calls = @ + 1,
                    ![t].awaiting = IF await /\ call.promise = Pending
                                    THEN Len(sends) + 1 ELSE 0]
  /\ LET got == getClient(client, clients)
     IN /\ client' = got.client
        /\ clients' = got.clients
  /\ UNCHANGED <<connVars, envVars, procVars>>

\* a callback that sends the envelope again when the send failed
sendsAfterCallbackRetry(i, err) ==
  LET settled == [sends EXCEPT
                    ![i].callback = [called |-> TRUE, err |-> err],
                    ![i].promise = EmitSettle(SendSettle(err), sends[i].envelope)]
  IN IF Truthy(err)
     THEN Append(settled, [sends[i] EXCEPT !.origin = "retry"])
     ELSE settled

(***************************************************************************)
(* The SendResult calls after the callback of the i-th one has run with    *)
(* error argument err: sendMessageToServer's promise settles and with it   *)
(* the promise of emit.                                                    *)
(***************************************************************************)
sendsAfterCallback(i, err) ==
  [sends EXCEPT
     ![i].callback = [called |-> TRUE, err |-> err],
     ![i].promise = EmitSettle(SendSettle(err), sends[i].envelope)]

\* a failed send of the catch callback's QUERY_FAILED runs the handler again
tasksAfterCallbackReinvoke(i, err) ==
  [t \in 1..Len(tasks) |->
     IF tasks[t].awaiting = i
     THEN [tasks[t] EXCEPT !.awaiting = 0]
     ELSE IF sends[i].task = t /\ sends[i].origin = "catch" /\ Truthy(err)
          THEN [tasks[t] EXCEPT !.state = "running"]
          ELSE tasks[t]]

(***************************************************************************)
(* The tasks after the callback of the i-th SendResult call has run: a     *)
(* handler that awaited the emit call resumes.  Nothing awaits the         *)
(* QUERY_FAILED emit of the catch callback: its rejection reaches the      *)
(* unhandledRejection listener, which logs it.                             *)
(***************************************************************************)
tasksAfterCallback(i, err) ==
  [t \in 1..Len(tasks) |->
     IF tasks[t].awaiting = i
     THEN [tasks[t] EXCEPT !.awaiting = 0]
     ELSE tasks[t]]

(***************************************************************************)
(* The callback of the i-th SendResult call runs.                          *)
(***************************************************************************)
SendCallback(i, err) ==
  /\ ~sends[i].callback.called
  /\ sends' = sendsAfterCallback(i, err)
  /\ tasks' = tasksAfterCallback(i, err)
  /\ UNCHANGED <<connVars, emitCalls, envVars, clientVars, procVars>>

\* a failure boundary that reports completion itself when the handler returns
HandlerReturnSendsCompleted(t) ==
  /\ tasks[t].state = "running"
  /\ tasks[t].awaiting = 0
  /\ tasks' = [tasks EXCEPT ![t].state = "returned"]
  /\ emitCalls' = emitCalls + 1
  /\ sends' = Append(sends, EmitCall(t, "then", "emitQueryCompleted",
                                     EmptyObject))
  /\ UNCHANGED <<connVars, envVars, clientVars, procVars>>

(***************************************************************************)
(* The user handler returns, or its promise resolves.                      *)
(***************************************************************************)
HandlerReturn(t) ==
  /\ tasks[t].state = "running"
  /\ tasks[t].awaiting = 0
  /\ tasks' = [tasks EXCEPT ![t].state = "returned"]
  /\ UNCHANGED <<connVars, sends, emitCalls, envVars, clientVars, procVars>>

(***************************************************************************)
(* The user handler throws e or its promise rejects with e; both reach the *)
(* catch callback of onTask, which calls emitQueryFailed.  e is a failure  *)
(* of the handler's own or the rejection of one of its emit calls.         *)
(***************************************************************************)
Rejections(t) ==
  {sends[i].promise.value :
     i \in {j \in 1..Len(sends) : /\ sends[j].task = t
                                  /\ sends[j].promise.status = "rejected"}}

\* a catch callback that sends nothing when the handler has itself called
\* emitQueryFailed
HandlerFailDeduplicated(t, e) ==
  /\ Len(sends) < MaxSends
  /\ tasks[t].state = "running"
  /\ tasks[t].awaiting = 0
  /\ tasks' = [tasks EXCEPT ![t].state = "failed", ![t].failure = e]
  /\ IF \E i \in 1..Len(sends) : /\ sends[i].task = t
                                  /\ sends[i].emitter = "emitQueryFailed"
     THEN UNCHANGED <<emitCalls, sends>>
     ELSE /\ emitCalls' = emitCalls + 1
          /\ sends' = Append(sends, EmitCall(t, "catch", "emitQueryFailed",
                                             FailurePayload(e)))
  /\ LET got == getClient(client, clients)
     IN /\ client' = got.client
        /\ clients' = got.clients
  /\ UNCHANGED <<connVars, envVars, procVars>>

HandlerFail(t, e) ==
  /\ Len(sends) < MaxSends
  /\ tasks[t].state = "running"
  /\ tasks[t].awaiting = 0
  /\ tasks' = [tasks EXCEPT ![t].state = "failed", ![t].failure = e]
  /\ emitCalls' = emitCalls + 1
  /\ sends' = Append(sends, EmitCall(t, "catch", "emitQueryFailed",
                                     FailurePayload(e)))
  /\ LET got == getClient(client, clients)
     IN /\ client' = got.client
        /\ clients' = got.clients
  /\ UNCHANGED <<connVars, envVars, procVars>>

(***************************************************************************)
(* The connection manager: start(), readiness probes, streams and their    *)
(* disconnect events, reconnect timers.                                    *)
(***************************************************************************)
Next ==
  \/ Start
  \/ ProbeFail
  \/ ProbeSuccess
  \/ \E s \in 1..Len(streams), e \in DisconnectEvents : StreamEvent(s, e)
  \/ TimerFire

Spec == Init /\ [][Next]_vars

(***************************************************************************)
(* The same under the scheduling the event loop and the claim's            *)
(* assumption give: a pending timer fires, and readiness probes do not     *)
(* fail forever.                                                           *)
(***************************************************************************)
FairSpec == Spec /\ WF_vars(TimerFire) /\ SF_vars(ProbeSuccess)

(***************************************************************************)
(* The same when only the timers are known to fire: a readiness probe may  *)
(* stay pending or fail every time.                                        *)
(***************************************************************************)
RetrySpec == Spec /\ WF_vars(TimerFire)

(***************************************************************************)
(* The connection manager with cleanup() and the process's signals; no     *)
(* callback runs once the process has exited.  Few probes fail and few     *)
(* disconnect events arrive here: those are the subject of Spec.           *)
(***************************************************************************)
CleanupNext ==
  \/ ~exited /\ Start
  \/ ~exited /\ probeFails < MaxSideFailures /\ ProbeFail
  \/ ~exited /\ ProbeSuccess
  \/ ~exited /\ disconnects < MaxSideFailures /\
       \E s \in 1..Len(streams), e \in DisconnectEvents : StreamEvent(s, e)
  \/ ~exited /\ TimerFire
  \/ Cleanup
  \/ Signal

CleanupSpec == Init /\ [][CleanupNext]_vars

(***************************************************************************)
(* The connection manager whose owner calls cleanup() and does not call    *)
(* start() again after it: the probes, streams and timers there are go on  *)
(* running their callbacks.                                                *)
(***************************************************************************)
StopNext ==
  \/ cleanups = 0 /\ Start
  \/ probeFails < MaxSideFailures /\ ProbeFail
  \/ ProbeSuccess
  \/ disconnects < MaxSideFailures /\
       \E s \in 1..Len(streams), e \in DisconnectEvents : StreamEvent(s, e)
  \/ TimerFire
  \/ Cleanup

StopSpec == Init /\ [][StopNext]_vars

(***************************************************************************)
(* The dispatch adapter and the result dispatcher on the first stream,     *)
(* from the state after start() and one successful readiness probe: the    *)
(* stream's data events, the handler invocations, the emit calls and the   *)
(* SendResult callbacks.                                                   *)
(***************************************************************************)
DispatchInit ==
  /\ startCalls = 1
  /\ rapid = FALSE
  /\ activeCall = 1
  /\ backoffMs = INITIAL_BACKOFF
  /\ probes = 0
  /\ timers = 0
  /\ lastWait = [base |-> 0, jitter |-> 0]
  /\ probeFails = 0
  /\ disconnects = 0
  /\ streams = <<NewStream>>
  /\ tasks = <<>>
  /\ sends = <<>>
  /\ emitCalls = 0
  /\ emitIn = NoEmit
  /\ emitOut = NotBuilt
  /\ client = 1
  /\ clients = <<NewClient>>
  /\ cleanups = 0
  /\ exited = FALSE
  /\ LoopInit
  /\ UseInit

DispatchNext ==
  \/ \E ctx \in Contexts : StreamData(1, ctx)
  \/ \E t \in 1..Len(tasks), em \in HandlerEmitters, p \in HandlerPayloads,
        await \in BOOLEAN : HandlerEmit(t, em, p, await)
  \/ \E i \in 1..Len(sends), err \in CallbackErrors : SendCallback(i, err)
  \/ \E t \in 1..Len(tasks) : HandlerReturn(t)
  \/ \E t \in 1..Len(tasks) :
       \E e \in Failures \cup Rejections(t) : HandlerFail(t, e)

DispatchSpec == DispatchInit /\ [][DispatchNext]_vars

(***************************************************************************)
(* The same with the disconnect events of the stream.                      *)
(***************************************************************************)
StreamNext ==
  \/ \E e \in DisconnectEvents : StreamEvent(1, e)
  \/ DispatchNext

StreamSpec == DispatchInit /\ [][StreamNext]_vars

(***************************************************************************)
(* One handler invocation across a reconnection, from the state after      *)
(* start(), one successful readiness probe and one data event of stream 1: *)
(* the streams' disconnect events, the reconnect timers and the probes     *)
(* that follow them, and a handler that reports completion and fails only  *)
(* when one of its emit calls was rejected.  Few disconnect events arrive  *)
(* and few probes fail here.                                               *)
(***************************************************************************)
ReconnectInit ==
  /\ startCalls = 1
  /\ rapid = FALSE
  /\ activeCall = 1
  /\ backoffMs = INITIAL_BACKOFF
  /\ probes = 0
  /\ timers = 0
  /\ lastWait = [base |-> 0, jitter |-> 0]
  /\ probeFails = 0
  /\ disconnects = 0
  /\ streams = <<NewStream>>
  /\ tasks = <<onTask(JsonParse(JsonStringify(AgentContext)), 1)>>
  /\ sends = <<>>
  /\ emitCalls = 0
  /\ emitIn = NoEmit
  /\ emitOut = NotBuilt
  /\ client = 1
  /\ clients = <<NewClient>>
  /\ cleanups = 0
  /\ exited = FALSE
  /\ LoopInit
  /\ UseInit

ReconnectNext ==
  \/ disconnects < MaxSideFailures /\
       \E s \in 1..Len(streams), e \in DisconnectEvents : StreamEvent(s, e)
  \/ TimerFire
  \/ probeFails < MaxSideFailures /\ ProbeFail
  \/ ProbeSuccess
  \/ \E t \in 1..Len(tasks), p \in HandlerPayloads, await \in BOOLEAN :
       HandlerEmit(t, "emitQueryCompleted", p, await)
  \/ \E i \in 1..Len(sends), err \in CallbackErrors : SendCallback(i, err)
  \/ \E t \in 1..Len(tasks) : HandlerReturn(t)
  \/ \E t \in 1..Len(tasks) : \E e \in Rejections(t) : HandlerFail(t, e)

ReconnectSpec == ReconnectInit /\ [][ReconnectNext]_vars

(***************************************************************************)
(* The data events of the first stream, decodable or not, the microtask    *)
(* queue and the handler invocations, which return or fail.  The callback  *)
(* of SendResult runs from the event loop, when no microtask is queued.    *)
(***************************************************************************)
ArrivalNext ==
  \/ \E payload \in TaskPayloads : DataEvent(1, payload)
  \/ RunMicrotask
  \/ \E t \in 1..Len(tasks) : HandlerReturn(t)
  \/ \E t \in 1..Len(tasks) : HandlerFail(t, Error("boom"))
  \/ microtasks = <<>> /\
       \E i \in 1..Len(sends), err \in CallbackErrors : SendCallback(i, err)

ArrivalSpec == DispatchInit /\ [][ArrivalNext]_vars

(***************************************************************************)
(* Handlers that await every emitter call before they go on, as the event  *)
(* logging example does: created, then a custom event, then completed.     *)
(* A handler whose awaited emit call was rejected catches the rejection    *)
(* and goes on, or fails with it.                                          *)
(***************************************************************************)
HandlerSteps ==
  <<[emitter |-> "emitQueryCreated",
     payload |-> "data" :> Str("Processing started")],
    [emitter |-> "emitEventCreated",
     payload |-> "data" :> Obj("processing")],
    [emitter |-> "emitQueryCompleted",
     payload |-> "data" :> Str("Processing finished")]>>

SequentialNext ==
  \/ \E ctx \in Contexts : StreamData(1, ctx)
  \/ \E t \in 1..Len(tasks) :
       /\ tasks[t].calls < Len(HandlerSteps)
       /\ LET step == HandlerSteps[tasks[t].calls + 1]
          IN HandlerEmit(t, step.emitter, step.payload, TRUE)
  \/ \E i \in 1..Len(sends), err \in CallbackErrors : SendCallback(i, err)
  \/ \E t \in 1..Len(tasks) : HandlerReturn(t)
  \/ \E t \in 1..Len(tasks) : \E e \in Rejections(t) : HandlerFail(t, e)

SequentialSpec == DispatchInit /\ [][SequentialNext]_vars

(***************************************************************************)
(* The data listener alone, on the first stream: the server encodes one    *)
(* context, any object with queryId, params and some of the other fields,  *)
(* each holding a string, the empty string, an object or undefined, and    *)
(* sends it as the payload of its tasks.                                   *)
(***************************************************************************)
ContextKeys == {"agentId", "chatbotId", "messages", "webhookGroups"}

ContextValues == {Str("v"), Str(""), Obj("o"), Undefined}

DecodeContexts ==
  UNION {[{"queryId", "params"} \cup K -> ContextValues] :
           K \in SUBSET ContextKeys}

DecodeInit ==
  /\ startCalls = 1
  /\ rapid = FALSE
  /\ activeCall = 1
  /\ backoffMs = INITIAL_BACKOFF
  /\ probes = 0
  /\ timers = 0
  /\ lastWait = [base |-> 0, jitter |-> 0]
  /\ probeFails = 0
  /\ disconnects = 0
  /\ streams = <<NewStream>>
  /\ tasks = <<>>
  /\ sends = <<>>
  /\ emitCalls = 0
  /\ emitIn \in [context : DecodeContexts, emitter : {""},
                 payload : {EmptyObject}]
  /\ emitOut = NotBuilt
  /\ client = 1
  /\ clients = <<NewClient>>
  /\ cleanups = 0
  /\ exited = FALSE
  /\ LoopInit
  /\ UseInit

DecodeNext == StreamData(1, emitIn.context)

DecodeSpec == DecodeInit /\ [][DecodeNext]_vars

(***************************************************************************)
(* useAgent and useChatbot alone: the user wrote a handler, which returns, *)
(* throws or emits for each context, and passes it through one of them.    *)
(***************************************************************************)
HandlerOutcomes == {"returns", "throws", "emits"}

Handlers == [id : {"handler"}, behaviour : [AllContexts -> HandlerOutcomes]]

UseInitGiven ==
  /\ ConnInit
  /\ tasks = <<>>
  /\ sends = <<>>
  /\ emitCalls = 0
  /\ emitIn = NoEmit
  /\ emitOut = NotBuilt
  /\ client = NoClient
  /\ clients = <<>>
  /\ cleanups = 0
  /\ exited = FALSE
  /\ LoopInit
  /\ given \in Handlers
  /\ used = NotUsed

UseAgent ==
  /\ used = NotUsed
  /\ used' = [by |-> "useAgent", handler |-> useAgent(given)]
  /\ UNCHANGED <<connVars, dispVars, envVars, clientVars, cleanups, exited,
                 loopVars, given>>

UseChatbot ==
  /\ used = NotUsed
  /\ used' = [by |-> "useChatbot", handler |-> useChatbot(given)]
  /\ UNCHANGED <<connVars, dispVars, envVars, clientVars, cleanups, exited,
                 loopVars, given>>

UseNext == UseAgent \/ UseChatbot

UseSpec == UseInitGiven /\ [][UseNext]_vars

(***************************************************************************)
(* The envelope builder alone: one emitter called with every context and   *)
(* payload, up to the message it hands to SendResult.                      *)
(***************************************************************************)
EnvelopeInit ==
  /\ ConnInit
  /\ tasks = <<>>
  /\ sends = <<>>
  /\ emitCalls = 0
  /\ emitIn \in [context : AllContexts, emitter : Emitters,
                 payload : AllPayloads]
  /\ emitOut = NotBuilt
  /\ client = NoClient
  /\ clients = <<>>
  /\ cleanups = 0
  /\ exited = FALSE
  /\ LoopInit
  /\ UseInit

\* emitIn.emitter(emitIn.payload) up to the SendResult call
EmitBuild ==
  /\ emitOut = NotBuilt
  /\ LET envelope == completePayload(emitIn.context,
                                     EmitterKey(emitIn.emitter), emitIn.payload)
     IN emitOut' = [envelope |-> envelope, message |-> ResultMessage(envelope)]
  /\ emitCalls' = emitCalls + 1
  /\ LET got == getClient(client, clients)
     IN /\ client' = got.client
        /\ clients' = got.clients
  /\ UNCHANGED <<connVars, tasks, sends, emitIn, procVars>>

EnvelopeNext == EmitBuild

EnvelopeSpec == EnvelopeInit /\ [][EnvelopeNext]_vars

(***************************************************************************)
(*                              Properties                                 *)
(***************************************************************************)

\* C1: when start() is called twice before the first readiness probe has
\* completed (and no probe fails and no stream disconnects), at most one
\* TaskStream call is made and at most one stream is open, and exactly one
\* once no probe is pending.
C1_IdempotentStart ==
  (rapid /\ probeFails = 0 /\ disconnects = 0) =>
    /\ Len(streams) <= 1
    /\ Cardinality(OpenStreams) <= 1
    /\ (probes = 0 => Len(streams) = 1)

\* C2: on a manager whose start() was called once, at most one stream
\* opened by TaskStream is still open.
C2_AtMostOneOpenStream ==
  startCalls <= 1 => Cardinality(OpenStreams) <= 1

\* C3: after start() was called once and the first N probes all failed, the
\* wait scheduled after the Nth failure has base min(10000, 1000 * 2^(N-1)),
\* that is 1000, 2000, 4000, 8000, 10000, 10000 for N = 1..6, and a jitter
\* in [0, 300).
ExpectedBase(n) == Min(10000, 1000 * 2^(n - 1))

First6Bases == <<1000, 2000, 4000, 8000, 10000, 10000>>

C3_BackoffSequence ==
  (startCalls = 1 /\ Len(streams) = 0 /\ probeFails >= 1) =>
    /\ lastWait.base = ExpectedBase(probeFails)
    /\ probeFails <= 6 => lastWait.base = First6Bases[probeFails]
    /\ lastWait.jitter >= 0
    /\ lastWait.jitter < 300

C3_Witness ==
  /\ startCalls = 1
  /\ Len(streams) = 0
  /\ probeFails = 6
  /\ timers = 1
  /\ lastWait.base = 10000

\* C4: whenever some stream has emitted error and the manager holds no
\* active stream, the manager eventually holds an active stream again, and
\* that stream is a TaskStream call that has emitted no error, so it is
\* distinct from every stream that failed.
SomeStreamFailed ==
  \E s \in 1..Len(streams) : "error" \in streams[s].emitted

C4_ReconnectsWithFreshStream ==
  (SomeStreamFailed /\ activeCall = NoCall)
    ~> (activeCall # NoCall /\ "error" \notin streams[activeCall].emitted)

C4_Witness ==
  \E s \in 1..Len(streams) :
    /\ "error" \in streams[s].emitted
    /\ activeCall > s
    /\ IsOpen(activeCall)

\* C5: no task is dispatched (onTask called) for a data event that its stream
\* delivers after the stream has emitted error.
C5_NoDispatchAfterError ==
  \A t \in 1..Len(tasks) : ~tasks[t].afterError

\* What the server reads from the i-th SendResult call.
Sent(i) == JsonParse(sends[i].message.data)

SendsOf(t) == {i \in 1..Len(sends) : sends[i].task = t}

HandlerSendsOf(t) == {i \in SendsOf(t) : sends[i].origin = "handler"}

\* C6: when the handler of a task failed with a failure that has a message
\* and the handler called no emitter, exactly one SendResult call was made
\* for the task, with eventType QUERY_FAILED, webhookListener
\* emitQueryFailed and data equal to the failure's message.
C6_HandlerFailureSendsOneQueryFailed ==
  \A t \in 1..Len(tasks) :
    (/\ tasks[t].state = "failed"
     /\ tasks[t].failure.t = "Error"
     /\ HandlerSendsOf(t) = {}) =>
      /\ Cardinality(SendsOf(t)) = 1
      /\ \A i \in SendsOf(t) :
           /\ Get(Sent(i), "eventType") = Str("QUERY_FAILED")
           /\ Get(Sent(i), "webhookListener") = Str("emitQueryFailed")
           /\ Get(Sent(i), "data") = Str(tasks[t].failure.v)

\* The event type and the listener the spec gives for each emitter.
ExpectedEventType(emitter) ==
  CASE emitter = "emitQueryCreated" -> Str("QUERY_CREATED")
    [] emitter = "emitQueryCompleted" -> Str("QUERY_COMPLETED")
    [] emitter = "emitQueryFailed" -> Str("QUERY_FAILED")
    [] emitter = "emitEventCreated" -> Str("EVENT_CREATED")

Built == emitOut # NotBuilt

FixedFieldsHold ==
  /\ Get(emitOut.envelope, "eventType") = ExpectedEventType(emitIn.emitter)
  /\ Get(emitOut.envelope, "webhookListener") = Str(emitIn.emitter)
  /\ Get(emitOut.envelope, "queryId") = Get(emitIn.context, "queryId")
  /\ Get(emitOut.envelope, "params") = Get(emitIn.context, "params")

FixedKeys == {"eventType", "webhookListener", "queryId", "params"}

IdentityKeys == {"agentId", "chatbotId", "messages"}

\* C7 as stated: the envelope has eventType and webhookListener of the
\* emitter's table entry and queryId and params of the context, whatever the
\* payload holds, and every other key of the payload is carried unchanged.
C7_EnvelopeIntegrity ==
  Built =>
    /\ FixedFieldsHold
    /\ \A k \in (DOMAIN emitIn.payload) \ FixedKeys :
         Get(emitOut.envelope, k) = emitIn.payload[k]

\* C7 as amended: the same, except that a payload key agentId, chatbotId or
\* messages is carried unchanged only when the context has no truthy value
\* for it; otherwise the envelope holds the context's value.
C7_EnvelopeIntegrityAmended ==
  Built =>
    /\ FixedFieldsHold
    /\ \A k \in (DOMAIN emitIn.payload) \ FixedKeys :
         Get(emitOut.envelope, k) =
           IF k \in IdentityKeys /\ Truthy(Get(emitIn.context, k))
           THEN emitIn.context[k]
           ELSE emitIn.payload[k]

C7_Witness ==
  /\ Built
  /\ FixedKeys \cup {"data", "extra"} \subseteq DOMAIN emitIn.payload
  /\ emitOut.envelope["data"] = Str("caller")
  /\ emitOut.envelope["queryId"] = Str("q1")

\* C8: the envelope handed to SendResult carries the (eventType,
\* webhookListener) pair of the emitter that was invoked, which is one of the
\* four fixed pairs, and the table maps the four event types one-to-one to
\* the four listeners.
FixedPairs ==
  {<<Str("QUERY_CREATED"), Str("emitQueryCreated")>>,
   <<Str("QUERY_COMPLETED"), Str("emitQueryCompleted")>>,
   <<Str("QUERY_FAILED"), Str("emitQueryFailed")>>,
   <<Str("EVENT_CREATED"), Str("emitEventCreated")>>}

SentPair == <<Get(JsonParse(emitOut.message.data), "eventType"),
              Get(JsonParse(emitOut.message.data), "webhookListener")>>

C8_FixedBijectivePair ==
  Built =>
    /\ SentPair \in FixedPairs
    /\ SentPair = <<ExpectedEventType(emitIn.emitter), Str(emitIn.emitter)>>
    /\ \A k1, k2 \in EventKeys :
         /\ (EVENT_CONFIGS[k1].eventType = EVENT_CONFIGS[k2].eventType) <=> (k1 = k2)
         /\ (EVENT_CONFIGS[k1].webhookListener = EVENT_CONFIGS[k2].webhookListener)
              <=> (k1 = k2)

C8_Witness ==
  /\ Built
  /\ emitIn.emitter = "emitEventCreated"
  /\ {"eventType", "webhookListener"} \subseteq DOMAIN emitIn.payload
  /\ SentPair = <<Str("EVENT_CREATED"), Str("emitEventCreated")>>

\* C9: the promise of an emit call is pending until the SendResult callback
\* has run; it is resolved, with the complete envelope, exactly when the
\* callback reported success, and rejected, with the callback's error,
\* exactly when the callback reported an error.
C9_EmitPromiseFollowsCallback ==
  \A i \in 1..Len(sends) :
    LET c == sends[i].callback
        p == sends[i].promise
    IN /\ ~c.called => p.status = "pending"
       /\ (p.status = "resolved") <=> (c.called /\ ~Truthy(c.err))
       /\ (p.status = "rejected") <=> (c.called /\ Truthy(c.err))
       /\ p.status = "resolved" => p.value = sends[i].envelope
       /\ p.status = "rejected" => p.value = c.err

C9_Witness ==
  \E i, j \in 1..Len(sends) :
    /\ sends[i].promise = [status |-> "resolved", value |-> sends[i].envelope]
    /\ sends[j].promise = [status |-> "rejected", value |-> SendError]

\* C10: the number of SendResult calls equals the number of emit calls, so a
\* failed send causes no further SendResult call, and a QUERY_FAILED envelope
\* from the catch callback exists only for a task whose handler failed, one
\* for each.
CatchSendsOf(t) == {i \in SendsOf(t) : sends[i].origin = "catch"}

C10_OneSendPerEmitNoRetry ==
  /\ Len(sends) = emitCalls
  /\ \A i \in 1..Len(sends) : sends[i].origin \in {"handler", "catch"}
  /\ \A t \in 1..Len(tasks) :
       Cardinality(CatchSendsOf(t)) = IF tasks[t].state = "failed" THEN 1 ELSE 0

C10_Witness ==
  \E i \in 1..Len(sends) :
    /\ sends[i].callback = [called |-> TRUE, err |-> SendError]
    /\ tasks[sends[i].task].state = "returned"
    /\ Cardinality(SendsOf(sends[i].task)) = 1

\* C11: after start(), a manager that holds no active stream always has a
\* readiness probe in flight or a reconnect timer pending, whatever number
\* of probes failed and streams disconnected before, and when no probe is in
\* flight one is eventually started: there is no state from which the
\* manager stops retrying.
C11_RetryNeverStops ==
  /\ []((startCalls > 0 /\ activeCall = NoCall) => (probes > 0 \/ timers > 0))
  /\ (startCalls > 0 /\ activeCall = NoCall /\ probes = 0) ~> (probes > 0)

C11_Witness ==
  /\ startCalls = 1
  /\ probeFails >= 2
  /\ disconnects >= 1
  /\ activeCall = NoCall
  /\ timers = 0
  /\ probes = 1

\* Each stream opened so far has emitted exactly one disconnect event.
OneDisconnectEach ==
  \A s \in 1..Len(streams) : Cardinality(streams[s].emitted) = 1

ProbeFailuresOnly == startCalls = 1 /\ Len(streams) = 0 /\ probeFails >= 1

DisconnectsOnly ==
  startCalls = 1 /\ probeFails = 0 /\ Len(streams) >= 1 /\ OneDisconnectEach

\* C12 as stated: after N consecutive probe failures, and likewise after N
\* streams that each opened and then emitted one disconnect event, the wait
\* scheduled last has base min(10000, 1000 * 2^(N-1)).
C12_SameBackoffSequence ==
  /\ ProbeFailuresOnly => lastWait.base = ExpectedBase(probeFails)
  /\ DisconnectsOnly => lastWait.base = ExpectedBase(Len(streams))

\* C12 as amended: a probe failure and a stream disconnect schedule the
\* reconnect by the same rule, base min(10000, backoffMs) of the backoff at
\* that moment; N consecutive probe failures give min(10000, 1000 * 2^(N-1)),
\* and N streams that each opened and then emitted one disconnect event give
\* base 1000 every time, since opening a stream resets the backoff.
C12_SameWaitRule ==
  /\ [](ProbeFailuresOnly => lastWait.base = ExpectedBase(probeFails))
  /\ [](DisconnectsOnly => lastWait.base = 1000)
  /\ [][(probeFails' # probeFails \/ disconnects' # disconnects) =>
          lastWait'.base = Min(10000, backoffMs)]_vars

C12_Witness ==
  /\ DisconnectsOnly
  /\ Len(streams) = 2
  /\ timers = 1
  /\ lastWait.base = 1000

\* C13: whenever the manager holds an active stream the backoff is 1000, so
\* the wait scheduled when that stream disconnects has base 1000.
C13_ActiveStreamHasFloorBackoff ==
  activeCall # NoCall => backoffMs = 1000

\* C14: at every state, the first cleanup() call cancels the active stream if
\* there is one, clears the reference and closes the client handle if there
\* is one, and a second call right after it cancels nothing, closes nothing
\* and leaves the state as the first call left it; no stream is ever
\* cancelled twice and no client handle closed twice.
C14_CleanupIdempotent ==
  LET st == ManagerState
      once == cleanup(st)
      twice == cleanup(once)
  IN /\ once.activeCall = NoCall
     /\ once.client = NoClient
     /\ \A s \in 1..Len(streams) :
          once.streams[s].cancels =
            st.streams[s].cancels + (IF s = st.activeCall THEN 1 ELSE 0)
     /\ \A c \in 1..Len(clients) :
          once.clients[c].closes =
            st.clients[c].closes + (IF c = st.client THEN 1 ELSE 0)
     /\ twice = once
     /\ \A s \in 1..Len(streams) : streams[s].cancels <= 1
     /\ \A c \in 1..Len(clients) : clients[c].closes <= 1

\* the process ended by a signal while a stream was active: cleanup() ran
\* at least twice in a row
C14_Witness ==
  /\ exited
  /\ cleanups >= 2
  /\ activeCall = NoCall
  /\ client = NoClient
  /\ \E s \in 1..Len(streams) : streams[s].cancels = 1 /\ streams[s].emitted = {}
  /\ \E c \in 1..Len(clients) : clients[c].closes = 1

\* The callback of the i-th SendResult call, the QUERY_FAILED send of the
\* catch callback, reports an error in this step.
FailedCatchSendStep(i) ==
  /\ sends[i].origin = "catch"
  /\ ~sends[i].callback.called
  /\ sends'[i].callback.called
  /\ Truthy(sends'[i].callback.err)

FailedCatchSends ==
  {i \in 1..Len(sends) : /\ sends[i].origin = "catch"
                          /\ sends[i].callback.called
                          /\ Truthy(sends[i].callback.err)}

\* C15: the step in which the QUERY_FAILED send of the catch callback fails
\* makes no SendResult call and no emit call, invokes no handler and leaves
\* the task failed and the connection state (active stream, backoff, timers,
\* probes, streams) unchanged; ever after, the task has that one send from
\* the catch callback and its handler is not running again.
C15_FailedFailureReportEndsThere ==
  /\ [][\A i \in 1..Len(sends) : FailedCatchSendStep(i) =>
          /\ Len(sends') = Len(sends)
          /\ emitCalls' = emitCalls
          /\ Len(tasks') = Len(tasks)
          /\ tasks'[sends[i].task].state = "failed"
          /\ activeCall' = activeCall
          /\ backoffMs' = backoffMs
          /\ timers' = timers
          /\ probes' = probes
          /\ streams' = streams]_vars
  /\ [](\A i \in FailedCatchSends :
          /\ CatchSendsOf(sends[i].task) = {i}
          /\ tasks[sends[i].task].state = "failed")

C15_Witness ==
  \E i \in FailedCatchSends :
    /\ sends[i].callback.err = SendError
    /\ sends[i].promise.status = "rejected"
    /\ SendsOf(sends[i].task) = {i}
    /\ tasks[sends[i].task].state = "failed"

\* The states of the spec's connection state machine, read off the manager.
Connecting == probes > 0

Streaming == activeCall # NoCall

Backoff == timers > 0

\* C16: the manager never has a pending reconnect timer or a readiness probe
\* in flight while it holds an active stream, nor a probe in flight together
\* with a pending timer.
C16_ExactlyOneState ==
  /\ ~(Streaming /\ Backoff)
  /\ ~(Streaming /\ Connecting)
  /\ ~(Connecting /\ Backoff)

C18_NoOpWhileActive ==
  [][(activeCall # NoCall /\ (startCalls' # startCalls \/ timers' < timers)) =>
       /\ probes' = probes
       /\ streams' = streams
       /\ timers' <= timers
       /\ activeCall' = activeCall]_vars

\* Both cases happened.  Stream 2 is active and has emitted nothing, and the
\* backoff is 2000: one timer fired after stream 2 was opened, while it was
\* active, and started nothing.  Two probes were started in all, one by the
\* first start() and one by the timer that fired before stream 2 was opened,
\* so the second start() started none: it came while a stream was active.
C18_Witness ==
  /\ startCalls = 2
  /\ ~rapid
  /\ probeFails = 0
  /\ disconnects = 2
  /\ Len(streams) = 2
  /\ activeCall = 2
  /\ IsOpen(2)
  /\ backoffMs = 2000
  /\ probes = 0
  /\ timers = 0

\* C19: a disconnect event of stream s sets the active-stream reference to
\* null when the reference is s, and leaves the reference as it is when it
\* is another stream.
C19_StaleDisconnectKeepsReference ==
  [][\A s \in 1..Len(streams) :
       (streams'[s].emitted # streams[s].emitted) =>
         activeCall' = IF activeCall = s THEN NoCall ELSE activeCall]_vars

\* Stream 2 is active and untouched after stream 1 emitted two events, the
\* second of them after stream 2 was opened: with one start() the only probe
\* failure came after stream 1's first event, so it scheduled its wait with
\* a backoff of 2000 or more, and the last wait scheduled has base 1000 only
\* if it was scheduled after stream 2's opening reset the backoff.
C19_Witness ==
  /\ startCalls = 1
  /\ probeFails = 1
  /\ Len(streams) = 2
  /\ Cardinality(streams[1].emitted) = 2
  /\ streams[2].emitted = {}
  /\ activeCall = 2
  /\ lastWait.base = 1000

\* The SendResult calls of emit calls made while the manager held no active
\* stream, by handlers whose task was dispatched before its stream emitted
\* any disconnect event.
StreamlessSends ==
  {i \in 1..Len(sends) : /\ sends[i].streamAtCall = NoCall
                          /\ ~tasks[sends[i].task].afterError}

\* C20 as stated: as long as no new stream has been established after the
\* disconnect, no emit call made while the manager held no active stream has
\* succeeded.
C20_EmitRejectedWithoutStream ==
  (Len(streams) = 1 /\ activeCall = NoCall) =>
    \A i \in StreamlessSends : sends[i].promise.status # "resolved"

\* C20 as amended: an emit call made while the manager holds no active
\* stream is sent like any other, with one SendResult call on the shared
\* client handle, which no disconnect has closed; its promise is pending
\* until the callback runs and then resolved or rejected as the callback
\* reports.
C20_EmitIndependentOfStream ==
  \A i \in StreamlessSends :
    /\ Sent(i) = JsonParse(JsonStringify(sends[i].envelope))
    /\ sends[i].client = 1
    /\ clients[sends[i].client].closes = 0
    /\ sends[i].promise.status =
         IF ~sends[i].callback.called THEN "pending"
         ELSE IF Truthy(sends[i].callback.err) THEN "rejected"
         ELSE "resolved"

C20_Witness ==
  /\ Len(streams) = 1
  /\ activeCall = NoCall
  /\ \E i, j \in StreamlessSends :
       /\ sends[i].promise.status = "resolved"
       /\ sends[j].promise.status = "rejected"

\* C29: at every reachable state the backoff lies between the floor 1000 and
\* the ceiling 10000, and every wait scheduled so far, after any sequence of
\* probe failures, stream disconnects and timer firings, lies in
\* [1000, 10300).
C29_BackoffAndWaitBounded ==
  /\ backoffMs >= 1000
  /\ backoffMs <= 10000
  /\ (probeFails + disconnects > 0) =>
       /\ lastWait.base + lastWait.jitter >= 1000
       /\ lastWait.base + lastWait.jitter < 10300

C29_Witness ==
  /\ backoffMs = 10000
  /\ probeFails > 0
  /\ disconnects > 0
  /\ lastWait.base = 10000
  /\ lastWait.jitter > 0

\* The client handles that were never closed.
UnclosedClients == {c \in 1..Len(clients) : clients[c].closes = 0}

\* C30: the client handle is created on first need and closed only by
\* cleanup(): no handle exists before the first start(), at most one
\* un-closed handle exists and it is the one the module variable holds, no
\* probe failure or disconnect event closes or replaces the handle, a step
\* without cleanup() closes no handle and keeps the handle there is, and a
\* handle is constructed only when there is none.
C30_ClientLifecycle ==
  /\ [](/\ startCalls = 0 => clients = <<>>
        /\ Cardinality(UnclosedClients) <= 1
        /\ UnclosedClients = IF client = NoClient THEN {} ELSE {client})
  /\ [][/\ (probeFails' # probeFails \/ disconnects' # disconnects) =>
            UNCHANGED <<client, clients>>
        /\ cleanups' = cleanups =>
            /\ \A c \in 1..Len(clients) : clients'[c] = clients[c]
            /\ client # NoClient => client' = client
        /\ Len(clients') # Len(clients) =>
            /\ client = NoClient
            /\ Len(clients') = Len(clients) + 1
            /\ client' = Len(clients')]_vars

\* a handle closed by cleanup(), a second one constructed by the reconnect
\* that followed, and a probe failure and a disconnect event on the way
C30_Witness ==
  /\ Len(clients) = 2
  /\ clients[1].closes = 1
  /\ client = 2
  /\ probeFails = 1
  /\ disconnects = 1

\* C26: the envelope has agentId, chatbotId or messages exactly when the
\* context has it, and then with the context's value, whatever the payload
\* holds: the payload neither supplies nor replaces an identity field.
C26_IdentityFromContext ==
  Built =>
    \A k \in IdentityKeys :
      /\ (k \in DOMAIN emitOut.envelope) <=> (k \in DOMAIN emitIn.context)
      /\ (k \in DOMAIN emitIn.context) =>
           Get(emitOut.envelope, k) = emitIn.context[k]

\* C24: every envelope sent through an emitter of a task, by the handler or
\* by the catch callback and in any interleaving with other tasks, carries
\* the queryId, params, agentId, chatbotId and messages of that task's own
\* context.
C24_EmittersBoundToOwnContext ==
  \A i \in 1..Len(sends) :
    \A k \in {"queryId", "params"} \cup IdentityKeys :
      Get(Sent(i), k) = Get(tasks[sends[i].task].context, k)

\* two tasks with different contexts in flight; the second task's emitter
\* was called first, then the first task's
C24_Witness ==
  /\ Len(tasks) = 2
  /\ tasks[1].context # tasks[2].context
  /\ tasks[1].state = "running"
  /\ tasks[2].state = "running"
  /\ Len(sends) = 2
  /\ sends[1].task = 2
  /\ sends[2].task = 1
  /\ Get(Sent(1), "chatbotId") # Get(Sent(2), "chatbotId")

\* The data events whose payload JSON.parse decodes, and the handler
\* invocations begun for the n-th data event.
Decodable == {n \in 1..Len(arrivals) : ~JsonParseThrows(arrivals[n].payload)}

InvocationsOf(n) == {t \in 1..Len(tasks) : tasks[t].arrival = n}

QueuedFor(n) == {m \in 1..Len(microtasks) : microtasks[m].arrival = n}

\* C21: a data event whose payload cannot be decoded reaches no
\* uncaughtException listener; once the queue has run it has led to a
\* QUERY_FAILED send of the catch callback, like a handler failure.
C21_DecodeFailureSendsQueryFailed ==
  \A n \in (1..Len(arrivals)) \ Decodable :
    /\ \A u \in 1..Len(uncaught) : uncaught[u].arrival # n
    /\ microtasks = <<>> =>
         \E i \in 1..Len(sends) :
           /\ sends[i].origin = "catch"
           /\ tasks[sends[i].task].arrival = n
           /\ Get(Sent(i), "eventType") = Str("QUERY_FAILED")

\* C22: the handler invocations of a stream's tasks begin in the order the
\* stream yielded them: when the invocation for a data event has begun, the
\* invocation for every earlier decodable data event of the stream has begun
\* before it; and every decodable data event has exactly one invocation,
\* queued or begun, with the decoded payload as its context, and an
\* undecodable one none.
C22_FifoDispatchOncePerTask ==
  /\ \A i, j \in 1..Len(tasks) :
       (i < j /\ tasks[i].stream = tasks[j].stream) =>
         tasks[i].arrival < tasks[j].arrival
  /\ \A t \in 1..Len(tasks) :
       \A n \in Decodable :
         (n < tasks[t].arrival /\ arrivals[n].stream = tasks[t].stream) =>
           \E u \in 1..(t - 1) : tasks[u].arrival = n
  /\ \A n \in Decodable :
       /\ Cardinality(InvocationsOf(n)) + Cardinality(QueuedFor(n)) = 1
       /\ microtasks = <<>> => Cardinality(InvocationsOf(n)) = 1
       /\ \A t \in InvocationsOf(n) :
            /\ tasks[t].context = JsonParse(arrivals[n].payload)
            /\ tasks[t].stream = arrivals[n].stream
  /\ \A n \in (1..Len(arrivals)) \ Decodable :
       InvocationsOf(n) = {} /\ QueuedFor(n) = {}

\* three tasks yielded in one burst, two of them decodable with different
\* contexts, and both invocations begun
C22_Witness ==
  /\ Len(arrivals) = 3
  /\ Cardinality(Decodable) = 2
  /\ Len(tasks) = 2
  /\ tasks[1].context # tasks[2].context
  /\ microtasks = <<>>

\* C23: a queued handler invocation can always begin, whatever the state of
\* the earlier invocations, so once the queue has run every decodable data
\* event has its invocation, and none of them is held back.
C23_InvocationsNotSerialized ==
  /\ microtasks # <<>> => ENABLED RunMicrotask
  /\ microtasks = <<>> => Len(tasks) = Cardinality(Decodable)
  /\ \A t \in 1..Len(tasks) : tasks[t].state \in {"running", "returned", "failed"}

\* three invocations in flight together, then the last one completed first
C23_Witness ==
  /\ Len(tasks) = 3
  /\ tasks[1].state = "running"
  /\ tasks[2].state = "running"
  /\ tasks[3].state = "returned"

\* C25: a step in which a readiness probe fails or a stream emits error, end
\* or close invokes no handler, makes no SendResult call and no emit call,
\* and leaves every handler invocation and every emit promise as it was;
\* and no emit promise is ever rejected by anything but the error its own
\* SendResult callback reported.
C25_FailuresNotSurfaced ==
  /\ [][(probeFails' # probeFails \/ disconnects' # disconnects) =>
          UNCHANGED <<tasks, sends, emitCalls, microtasks, uncaught>>]_vars
  /\ [](\A i \in 1..Len(sends) :
          sends[i].promise.status = "rejected" =>
            /\ sends[i].callback.called
            /\ sends[i].promise.value = sends[i].callback.err)
  /\ [](\A t \in 1..Len(tasks) :
          tasks[t].state = "failed" => tasks[t].failure \in Rejections(t))

\* the stream was lost and a probe failed while the handler was running; the
\* handler then emitted, with no active stream, and returned
C25_Witness ==
  /\ probeFails = 1
  /\ disconnects = 1
  /\ Len(tasks) = 1
  /\ tasks[1].state = "returned"
  /\ Len(sends) = 1
  /\ sends[1].streamAtCall = NoCall
  /\ sends[1].promise.status = "resolved"

\* The rank of the i-th SendResult call among the handler's calls of its task.
RankOf(i) ==
  Cardinality({j \in HandlerSendsOf(sends[i].task) : j <= i})

\* C27: for a handler that awaits each emitter call before the next, the
\* k-th SendResult call of the task is the handler's k-th emitter call
\* (its emitter and its payload), it was made only after the callbacks of
\* the earlier ones had run, and the number of SendResult calls equals the
\* number of emitter calls.
C27_AwaitedEmitsSequential ==
  \A t \in 1..Len(tasks) :
    /\ Cardinality(HandlerSendsOf(t)) = tasks[t].calls
    /\ \A i \in HandlerSendsOf(t) :
         /\ sends[i].emitter = HandlerSteps[RankOf(i)].emitter
         /\ Get(Sent(i), "data") = HandlerSteps[RankOf(i)].payload["data"]
         /\ Get(Sent(i), "webhookListener") = Str(HandlerSteps[RankOf(i)].emitter)
         /\ \A j \in HandlerSendsOf(t) : j < i => sends[j].callback.called

\* a handler that made its first two emitter calls, the first one's callback
\* having run before the second, while another task is in flight
C27_Witness ==
  /\ Len(tasks) = 2
  /\ tasks[1].calls = 2
  /\ HandlerSendsOf(1) = {1, 2}
  /\ sends[1].callback.called
  /\ ~sends[2].callback.called
  /\ sends[2].emitter = "emitEventCreated"

\* C28: for a task whose handler has not failed, the SendResult calls made
\* for the task are the handler's own emitter calls and nothing else, one
\* per emitter call, whatever their callbacks reported.
C28_NoSendsOfItsOwn ==
  \A t \in 1..Len(tasks) :
    tasks[t].state # "failed" =>
      /\ SendsOf(t) = HandlerSendsOf(t)
      /\ Cardinality(SendsOf(t)) = tasks[t].calls

\* a handler that emitted once and returned, its send having failed, and a
\* handler that returned without emitting
C28_Witness ==
  /\ Len(tasks) = 2
  /\ tasks[1].state = "returned"
  /\ tasks[1].calls = 1
  /\ Cardinality(SendsOf(1)) = 1
  /\ \E i \in SendsOf(1) : sends[i].promise.status = "rejected"
  /\ tasks[2].state = "returned"
  /\ tasks[2].calls = 0
  /\ SendsOf(2) = {}

\* The failure has a message field: it is an Error object.
HasMessage(e) == e.t = "Error"

\* C31: the data of the QUERY_FAILED envelope the catch callback sends for a
\* failed task is the failure's message when the failure has one, and the
\* failure value itself, as JSON writes it, otherwise.
C31_FailureDataIsMessageOrRawValue ==
  \A t \in 1..Len(tasks) :
    \A i \in CatchSendsOf(t) :
      Get(Sent(i), "data") =
        IF HasMessage(tasks[t].failure)
        THEN Str(tasks[t].failure.v)
        ELSE JsonValue(tasks[t].failure)

\* Deep equality as toEqual takes it: a property holding undefined counts
\* as absent.
DeepEqual(a, b) ==
  \A k \in (DOMAIN a) \cup (DOMAIN b) : Get(a, k) = Get(b, k)

NoUndefined(obj) == \A k \in DOMAIN obj : obj[k] # Undefined

C33_UseReturnsItsArgument ==
  used # NotUsed =>
    /\ used.handler = given
    /\ used.handler.id = given.id
    /\ \A ctx \in AllContexts : Call(used.handler, ctx) = Call(given, ctx)

\* useChatbot was applied to a handler that returns for one context and
\* throws for another
C33_Witness ==
  /\ used.by = "useChatbot"
  /\ Call(used.handler, AgentContext) = "throws"
  /\ Call(used.handler, ChatbotContext) = "returns"

\* C34: once cleanup() has been called, and start() not again after it, no
\* step makes a TaskStream call: the streams stay the ones there were.
C34_NoStreamAfterCleanup ==
  [][cleanups > 0 => Len(streams') = Len(streams)]_vars

\* C35: on a manager whose start() was called once, the first of the events
\* error, end and close that a stream emits schedules one reconnect and the
\* later ones of the same stream schedule none, and at most one reconnect
\* timer is pending at any time.
C35_OneReconnectPerDisconnect ==
  /\ [](startCalls <= 1 => timers <= 1)
  /\ [][startCalls <= 1 =>
          \A s \in 1..Len(streams) :
            streams'[s].emitted # streams[s].emitted =>
              timers' = timers + (IF streams[s].emitted = {} THEN 1 ELSE 0)]_vars

\* C36: whenever the manager holds an active stream, it is the stream opened
\* last, and that stream has emitted none of error, end and close and was
\* not cancelled.
C36_ActiveStreamIsLatestAndOpen ==
  activeCall # NoCall =>
    /\ activeCall = Len(streams)
    /\ streams[activeCall].emitted = {}
    /\ streams[activeCall].cancels = 0

\* the first stream was cancelled by cleanup() and emitted an event; the
\* reconnect that followed opened the second stream, which is the active one
C36_Witness ==
  /\ Len(streams) = 2
  /\ activeCall = 2
  /\ streams[1].cancels = 1
  /\ streams[1].emitted # {}
  /\ cleanups >= 1

\* The QUERY_FAILED envelopes handed to SendResult for task t.
QueryFailedSendsOf(t) ==
  {i \in SendsOf(t) : Get(Sent(i), "eventType") = Str("QUERY_FAILED")}

\* C37 as stated: at most one QUERY_FAILED envelope is handed to SendResult
\* for a task, the handler's own and the synthesized one counted together.
C37_AtMostOneQueryFailed ==
  \A t \in 1..Len(tasks) : Cardinality(QueryFailedSendsOf(t)) <= 1

\* C37 as amended: the catch callback synthesizes one QUERY_FAILED envelope
\* for a task once its handler has failed and none otherwise, and the
\* QUERY_FAILED envelopes of a task are that one and the handler's own
\* emitQueryFailed calls, each handed to SendResult.
C37_AtMostOneSynthesizedQueryFailed ==
  \A t \in 1..Len(tasks) :
    /\ Cardinality(CatchSendsOf(t)) = IF tasks[t].state = "failed" THEN 1 ELSE 0
    /\ QueryFailedSendsOf(t) =
         CatchSendsOf(t) \cup
           {i \in HandlerSendsOf(t) : sends[i].emitter = "emitQueryFailed"}

\* a handler that called emitQueryFailed itself and then failed: two
\* QUERY_FAILED envelopes for the task
C37_Witness ==
  /\ Len(tasks) >= 1
  /\ tasks[1].state = "failed"
  /\ Cardinality(QueryFailedSendsOf(1)) = 2
  /\ Cardinality(CatchSendsOf(1)) = 1
  /\ Cardinality(HandlerSendsOf(1)) = 1

\* The n-th data event is the one of this step and its payload cannot be
\* decoded.
DecodeFailureStep ==
  /\ Len(arrivals') = Len(arrivals) + 1
  /\ JsonParseThrows(arrivals'[Len(arrivals')].payload)

\* C38: a data event whose payload cannot be decoded invokes no handler and
\* queues none, makes no SendResult call, and leaves the active stream, the
\* backoff, the timers, the probes and the client as they were; and the
\* decodable data events the stream emits after it are dispatched like any
\* other.
C38_DecodeFailureChangesNothing ==
  /\ [][DecodeFailureStep =>
          UNCHANGED <<connVars, dispVars, clientVars, microtasks>>]_vars
  /\ [](\A n \in Decodable :
          (/\ \E m \in 1..(n - 1) : m \notin Decodable
           /\ microtasks = <<>>) =>
            \E t \in 1..Len(tasks) :
              /\ tasks[t].arrival = n
              /\ tasks[t].context = JsonParse(arrivals[n].payload))

\* an undecodable task, then a decodable one on the same stream, which was
\* dispatched; the stream is still the active one and no reconnect pending
C38_Witness ==
  /\ Len(arrivals) >= 2
  /\ 1 \notin Decodable
  /\ 2 \in Decodable
  /\ Len(uncaught) = 1
  /\ Len(tasks) = 1
  /\ tasks[1].arrival = 2
  /\ activeCall = 1
  /\ backoffMs = INITIAL_BACKOFF
  /\ timers = 0

====
